---- MODULE Spec2Model ----
(***************************************************************************)
(* ERC-7821 execute (src/src/experimental/erc7821/actions/execute.ts).     *)
(*                                                                         *)
(* Several invocations of execute run on one JavaScript event loop.  Each  *)
(* runs synchronously up to an await (the capability lookup through        *)
(* withCache, the submission through sendTransaction); invocations         *)
(* interleave only there.  The capability cache is shared by all of them.  *)
(*                                                                         *)
(* JavaScript values.  An optional value (T | undefined) is a sequence of  *)
(* length 0 (undefined) or 1 (the value).  A Hex byte string is a sequence *)
(* of tokens: '0x' is <<>>, and in revert data the first token stands for  *)
(* the 4-byte selector and every further token for the bytes following it. *)
(***************************************************************************)
EXTENDS Naturals, Sequences, FiniteSets

\* ------------------------------------------------------------------ bounds
MaxCalls == 2      \* longest call list
MaxChain == 2      \* longest cause chain of a submission error
MaxTail  == 1      \* most tokens following the selector in revert data

\* ------------------------------------------------------------ JS optionals
None == <<>>
Some(x) == <<x>>
IsSome(o) == o # <<>>
Get(o) == o[1]

\* A Hex | undefined value used as a condition: undefined is falsy and every
\* hex string, '0x' included, is a non-empty JS string and so truthy.
Truthy(o) == IsSome(o)

\* a ?? b
Coalesce(a, b) == IF IsSome(a) THEN a ELSE b

\* --------------------------------------------------------- program constants
\* executionMode of ../constants.js
ModeDefault == "0x0100000000000000000000000000000000000000000000000000000000000000"
ModeOpData  == "0x0100000000007821000100000000000000000000000000000000000000000000"

\* AbiError.getSelector(AbiError.from('error FnSelectorNotRecognized()')):
\* the 4-byte selector alone.
SentinelSelector == "FnSelectorNotRecognized()"
Sentinel == <<SentinelSelector>>

DocsPath == "/experimental/erc7821/execute"

\* ------------------------------------------------------------------ inputs
Clients == {"uid1", "uid2"}
Addrs   == {"0xA1", "0xA2"}

\* Interface descriptions: the errors and the functions each declares.
AbiA == [errors |-> {"ErrA"}, functions |-> {"f"}]
AbiB == [errors |-> {"ErrB"}, functions |-> {"g"}]
AbiS == [errors |-> {"ErrA", SentinelSelector}, functions |-> {"f"}]

Selectors == {SentinelSelector, "ErrA", "ErrB", "ErrZ"}

Call(to, abi, fn, args, data, value) ==
    [to |-> to, abi |-> abi, functionName |-> fn, args |-> args,
     data |-> data, value |-> value]

\* The calls a caller passes: interface-based ones (one of them with raw
\* data as well), raw ones, one with neither, and one whose function its
\* interface does not declare.
CallPool ==
    { Call("0xA1", Some(AbiA), Some("f"), Some(<<"01">>), None, None),
      Call("0xA2", Some(AbiB), Some("g"), Some(<<"02">>), None, Some(5)),
      Call("0xA2", Some(AbiS), Some("f"), Some(<<"03">>), Some(<<"be", "ef">>), Some(0)),
      Call("0xA1", None, None, None, Some(<<"de", "ad">>), None),
      Call("0xA2", None, None, None, None, Some(100)),
      Call("0xA1", Some(AbiB), Some("f"), Some(<<"01">>), None, None) }

SeqsUpTo(S, n) == UNION { [1..k -> S] : k \in 0..n }

CallLists == SeqsUpTo(CallPool, MaxCalls)

OpDatas == {None, Some(<<>>), Some(<<"aa">>)}

Authorization(a) == [contractAddress |-> a]
AuthLists ==
    {None, Some(<<>>), Some(<<Authorization(None)>>)}
        \cup { Some(<<Authorization(Some(a))>>) : a \in Addrs }
        \cup { Some(<<Authorization(Some("0xA2")), Authorization(Some("0xA1"))>>) }

\* The transaction fields a caller may pass along: gas, the fee fields, the
\* account and the chain override, each given or not.
TxOption(gas, gasPrice, maxFee, maxPriorityFee, account, chain) ==
    [gas |-> gas, gasPrice |-> gasPrice, maxFeePerGas |-> maxFee,
     maxPriorityFeePerGas |-> maxPriorityFee, account |-> account, chain |-> chain]

NoTxOption == TxOption(None, None, None, None, None, None)

TxOptions ==
    { TxOption(g, gp, mf, mp, ac, ch) :
        g \in {None, Some(21000)}, gp \in {None, Some(7)},
        mf \in {None, Some(30)}, mp \in {None, Some(2)},
        ac \in {None, Some("0xAcc")}, ch \in {None, Some("mainnet")} }

\* The parameters of execute, with the client it is called on.
Parameters(cs, as, ls, os, ks, ts) ==
    { [client |-> c, address |-> a, authorizationList |-> l, opData |-> o,
       calls |-> k, gas |-> t.gas, gasPrice |-> t.gasPrice,
       maxFeePerGas |-> t.maxFeePerGas,
       maxPriorityFeePerGas |-> t.maxPriorityFeePerGas,
       account |-> t.account, chain |-> t.chain] :
        c \in cs, a \in as, l \in ls, o \in os, k \in ks, t \in ts }

NoParameters ==
    [client |-> "", address |-> "", authorizationList |-> None,
     opData |-> None, calls |-> <<>>, gas |-> None, gasPrice |-> None,
     maxFeePerGas |-> None, maxPriorityFeePerGas |-> None,
     account |-> None, chain |-> None]

\* Revert data: a selector followed by at most MaxTail further tokens, or '0x'.
RevertDatas ==
    {<<>>} \cup
    UNION { { <<s>> \o t : t \in [1..k -> {"00"}] } : s \in Selectors, k \in 0..MaxTail }

\* One error object of a cause chain: whether it has a 'data' property and
\* that property's value.
Err(hasData, data) == [hasData |-> hasData, data |-> data]
ErrorObjects ==
    {Err(FALSE, None), Err(TRUE, None)} \cup { Err(TRUE, Some(d)) : d \in RevertDatas }

\* A thrown error is its cause chain: element 1 is the error thrown, element
\* k+1 the cause of element k.
Chains == UNION { [1..k -> ErrorObjects] : k \in 1..MaxChain }

\* ------------------------------------------------------- external helpers
\* encodeFunctionData(call): the selector of the named function followed by
\* the encoded arguments; it throws when the interface declares no such
\* function.
EncodeFunctionData(call) ==
    IF IsSome(call.functionName) /\ Get(call.functionName) \in Get(call.abi).functions
    THEN [ok |-> TRUE,
          data |-> <<Get(call.functionName)>> \o Coalesce(call.args, Some(<<>>))[1]]
    ELSE [ok |-> FALSE, data |-> <<>>]

\* decodeErrorResult({ abi, data }): returns the decoded error when the
\* interface declares an error with the data's selector, throws otherwise
\* (and on '0x').
DecodeErrorResultOk(abi, data) == data # <<>> /\ Head(data) \in abi.errors

\* BaseError.walk(fn), from position k of the chain: the first error, from
\* the outermost inward, that fn accepts; 0 (null) when there is none.
\* accepted is the set of positions whose error fn accepts.
RECURSIVE Walk(_, _, _)
Walk(e, k, accepted) ==
    IF k > Len(e) THEN 0
    ELSE IF k \in accepted THEN k
    ELSE Walk(e, k + 1, accepted)

\* ----------------------------------------------------------- encodeCalls
\* EncodeCall, were raw data preferred to the declared interface.
EncodeCallRawFirst(call) ==
    [data   |-> IF IsSome(call.data) THEN Get(call.data)
                ELSE IF IsSome(call.abi) THEN EncodeFunctionData(call).data
                ELSE <<>>,
     value  |-> Get(Coalesce(call.value, Some(0))),
     target |-> call.to]

\* One entry of the batch.
EncodeCall(call) ==
    [data   |-> IF IsSome(call.abi) THEN EncodeFunctionData(call).data
                ELSE Get(Coalesce(call.data, Some(<<>>))),
     value  |-> Get(Coalesce(call.value, Some(0))),
     target |-> call.to]

\* EncodeCallThrows, were an encoding failure swallowed.
EncodeCallNeverThrows(call) == FALSE

\* encodeFunctionData(call) throwing out of the map callback.
EncodeCallThrows(call) == IsSome(call.abi) /\ ~EncodeFunctionData(call).ok

\* encodeCalls, were the trailing field added for non-empty opData only.
encodeCallsNonEmptyOpData(calls_, opData) ==
    IF \E k \in 1..Len(calls_) : EncodeCallThrows(calls_[k])
    THEN [ok |-> FALSE, calls |-> <<>>, opData |-> None]
    ELSE [ok |-> TRUE,
          calls |-> [k \in 1..Len(calls_) |-> EncodeCall(calls_[k])],
          opData |-> IF IsSome(opData) /\ Len(Get(opData)) > 0 THEN opData ELSE None]

\* encodeCalls(calls_, opData): the batch, with the trailing opData field
\* only when opData is truthy; it throws when a call's encoding throws.
encodeCalls(calls_, opData) ==
    IF \E k \in 1..Len(calls_) : EncodeCallThrows(calls_[k])
    THEN [ok |-> FALSE, calls |-> <<>>, opData |-> None]
    ELSE [ok |-> TRUE,
          calls |-> [k \in 1..Len(calls_) |-> EncodeCall(calls_[k])],
          opData |-> IF Truthy(opData) THEN opData ELSE None]

\* ---------------------------------------------------------------- execute
\* const address = authorizationList?.[0]?.contractAddress ?? parameters.address
FirstContractAddress(authorizationList) ==
    IF IsSome(authorizationList) /\ Len(Get(authorizationList)) > 0
    THEN Get(authorizationList)[1].contractAddress
    ELSE None

EffectiveAddress(p) ==
    Get(Coalesce(FirstContractAddress(p.authorizationList), Some(p.address)))

\* Mode, were it chosen by the byte length of opData.
ModeByLength(opData) ==
    IF IsSome(opData) /\ Len(Get(opData)) > 0 THEN ModeOpData ELSE ModeDefault

\* const mode = opData ? executionMode.opData : executionMode.default
Mode(opData) == IF Truthy(opData) THEN ModeOpData ELSE ModeDefault

\* CacheKey, were the mode left out of the key.
CacheKeyWithoutMode(uid, address, mode) == <<"supportsExecutionMode", uid, address>>

\* cacheKey: `supportsExecutionMode.${client.uid}.${address}.${mode}`
CacheKey(uid, address, mode) == <<"supportsExecutionMode", uid, address, mode>>

\* Lookup, were the cache key built from parameters.address.
LookupKeyedByTarget(p) ==
    [client  |-> p.client,
     address |-> EffectiveAddress(p),
     mode    |-> Mode(p.opData),
     key     |-> CacheKey(p.client, p.address, Mode(p.opData))]

\* The arguments of supportsExecutionMode and the key they are cached under.
Lookup(p) ==
    [client  |-> p.client,
     address |-> EffectiveAddress(p),
     mode    |-> Mode(p.opData),
     key     |-> CacheKey(p.client, EffectiveAddress(p), Mode(p.opData))]

NoLookup == [client |-> "", address |-> "", mode |-> "", key |-> <<>>]

\* SendTo, were the transaction addressed to the address that was probed.
SendToEffective(p) == EffectiveAddress(p)

\* The request handed to sendTransaction:
\* { ...parameters, to: parameters.address, data: encodeFunctionData(execute) }
SendTo(p) == p.address

\* SendRequest, were the request rebuilt field by field and the priority
\* fee left out.
SendRequestWithoutPriorityFee(p, mode, encodedCalls) ==
    [client |-> p.client, address |-> p.address,
     authorizationList |-> p.authorizationList, opData |-> p.opData,
     calls |-> p.calls, gas |-> p.gas, gasPrice |-> p.gasPrice,
     maxFeePerGas |-> p.maxFeePerGas, maxPriorityFeePerGas |-> None,
     account |-> p.account, chain |-> p.chain,
     to   |-> SendTo(p),
     data |-> [functionName |-> "execute", mode |-> mode, calls |-> encodedCalls]]

\* Every parameter spread into the request, then to and data set.
SendRequest(p, mode, encodedCalls) ==
    [client |-> p.client, address |-> p.address,
     authorizationList |-> p.authorizationList, opData |-> p.opData,
     calls |-> p.calls, gas |-> p.gas, gasPrice |-> p.gasPrice,
     maxFeePerGas |-> p.maxFeePerGas,
     maxPriorityFeePerGas |-> p.maxPriorityFeePerGas,
     account |-> p.account, chain |-> p.chain,
     to   |-> SendTo(p),
     data |-> [functionName |-> "execute", mode |-> mode, calls |-> encodedCalls]]

\* Unsupported, were the check missing, and were it inverted.
UnsupportedNever(supported) == FALSE
UnsupportedInverted(supported) == supported

\* if (!supported)
Unsupported(supported) == ~supported

\* ------------------------------------------------------- the catch block
\* HasDataProperty, were the walk to look for a data value instead.
HasDataValue(err) == err.hasData /\ Truthy(err.data)

\* (e) => 'data' in e
HasDataProperty(err) == err.hasData

\* if (!error?.data) throw e
NoRevertData(e, k) == k = 0 \/ ~Truthy(e[k].data)

\* IsSentinel, were only the leading selector compared.
IsSentinelPrefix(data) == data # <<>> /\ Head(data) = SentinelSelector

\* error.data === AbiError.getSelector(...)
IsSentinel(data) == data = Sentinel

\* MatchStep, were matched assigned whether or not the decoding succeeded.
MatchStepUnchecked(calls, k, data, matched) ==
    IF ~IsSome(calls[k].abi) THEN matched ELSE k

\* One pass of the loop body over call k: the new value of matched.
MatchStep(calls, k, data, matched) ==
    IF ~IsSome(calls[k].abi) THEN matched
    ELSE IF DecodeErrorResultOk(Get(calls[k].abi), data) THEN k
    ELSE matched

\* MatchLoop, were a decoding failure to end the loop (no try/catch).
RECURSIVE MatchLoopEndedByFailure(_, _, _, _)
MatchLoopEndedByFailure(calls, k, data, matched) ==
    IF k > Len(calls) THEN matched
    ELSE IF IsSome(calls[k].abi) /\ ~DecodeErrorResultOk(Get(calls[k].abi), data)
         THEN matched
    ELSE MatchLoopEndedByFailure(calls, k + 1, data, MatchStep(calls, k, data, matched))

\* for (const c of parameters.calls) { ... }: the index of the call left in
\* matched after the loop, 0 for null.
RECURSIVE MatchLoop(_, _, _, _)
MatchLoop(calls, k, data, matched) ==
    IF k > Len(calls) THEN matched
    ELSE MatchLoop(calls, k + 1, data, MatchStep(calls, k, data, matched))

\* Outcomes of an invocation.
Outcome(kind, error, cause, context) ==
    [kind |-> kind, error |-> error, cause |-> cause, context |-> context]

Pending          == Outcome("pending", <<>>, 0, None)
Returned         == Outcome("hash", <<>>, 0, None)
EncodingError    == Outcome("EncodeFunctionDataError", <<>>, 0, None)
\* ProbeError, were a failed query taken for "unsupported".
ProbeErrorMasked == Outcome("ExecuteUnsupportedError", <<>>, 0, None)

ProbeError       == Outcome("SupportsExecutionModeError", <<>>, 0, None)
UnsupportedError == Outcome("ExecuteUnsupportedError", <<>>, 0, None)
NotRecognizedError == Outcome("FunctionSelectorNotRecognizedError", <<>>, 0, None)

\* throw e
Rethrow(e) == Outcome("rethrow", e, 0, None)

\* RethrowUnmatched, were the error found by walk thrown instead of e.
RethrowFound(e, k) == Outcome("rethrow", SubSeq(e, k, Len(e)), 0, None)

\* RethrowUnmatched, were the catch block to return instead of throwing.
ReturnsUndefined(e, k) == Outcome("undefined", <<>>, 0, None)

\* The error object handed to throw when nothing narrows the failure.
RethrowUnmatched(e, k) == Rethrow(e)

\* getContractError(error, { abi, address, args, docsPath, functionName })
ContractContext(matched) ==
    [abi |-> matched.abi, address |-> matched.to, args |-> matched.args,
     docsPath |-> DocsPath, functionName |-> matched.functionName]

\* layered over error, the object walk found: element k with its causes.
ContractError(e, k, matched) ==
    Outcome("ContractFunctionExecutionError", SubSeq(e, k, Len(e)), k,
            Some(ContractContext(matched)))

\* Where the catch block leaves the invocation, were it to go back to the
\* submission instead of throwing.
AfterCatchRetry == "looked"

\* Every path of the catch block throws: the invocation is over.
AfterCatch == "done"

\* The whole catch block: what execute throws for the submission error e.
Resolve(e, calls) ==
    LET k == Walk(e, 1, {j \in 1..Len(e) : HasDataProperty(e[j])}) IN
    IF NoRevertData(e, k) THEN Rethrow(e)
    ELSE LET data == Get(e[k].data)
             m == MatchLoop(calls, 1, data, 0) IN
         IF IsSentinel(data) THEN NotRecognizedError
         ELSE IF m = 0 THEN RethrowUnmatched(e, k)
         ELSE ContractError(e, k, calls[m])

\* ------------------------------------------------------------------ state
VARIABLES
    pc,         \* where each invocation stands
    params,     \* the parameters each invocation was called with
    lookup,     \* the capability lookup each invocation made
    supported,  \* the value its lookup resolved to, once it has
    sent,       \* the requests it handed to sendTransaction, in order
    thrown,     \* the error sendTransaction threw at it, if any
    outcome,    \* what the invocation returned or threw
    cache,      \* withCache's responses: key, data
    inflight,   \* the remote queries in flight inside withCache
    queries,    \* remote supportsExecutionMode queries issued, per triple
    probes,     \* remote queries issued, per invocation that issued them
    answered,   \* of the queries, the ones that returned a boolean, per triple
    awaits,     \* the invocation whose query each invocation awaits (0: none)
    stored      \* every response the cache was ever given

vars == <<pc, params, lookup, supported, sent, thrown, outcome,
          cache, inflight, queries, probes, answered, awaits, stored>>

Invocations == {1, 2}

Modes == {ModeDefault, ModeOpData}
Triples == [client : Clients, address : Addrs, mode : Modes]
Triple(l) == [client |-> l.client, address |-> l.address, mode |-> l.mode]

\* ----------------------------------------------------------------- cache
\* withCache(fn, { cacheKey }): the cached response under the key, if any.
CacheHit(key) == { c \in cache : c.key = key }

\* cache.response.set({ data })
CacheSet(key, data) == (cache \ CacheHit(key)) \cup {[key |-> key, data |-> data]}

\* The queries in flight for a key.  Whether the cache layer hands a second
\* invocation of the key one of them or lets it query too is left open:
\* at most one query in flight per key is desirable but not required.
PendingPromise(key) == { q \in inflight : q.key = key }

\* The remote query invocation i issues for its lookup l.
Query(l, i) ==
    [client |-> l.client, address |-> l.address, mode |-> l.mode,
     key |-> l.key, id |-> i]

Init ==
    /\ pc = [i \in Invocations |-> "idle"]
    /\ params = [i \in Invocations |-> NoParameters]
    /\ lookup = [i \in Invocations |-> NoLookup]
    /\ supported = [i \in Invocations |-> None]
    /\ sent = [i \in Invocations |-> <<>>]
    /\ thrown = [i \in Invocations |-> None]
    /\ outcome = [i \in Invocations |-> Pending]
    /\ cache = {}
    /\ inflight = {}
    /\ queries = [t \in Triples |-> 0]
    /\ probes = [i \in Invocations |-> 0]
    /\ answered = [t \in Triples |-> 0]
    /\ awaits = [i \in Invocations |-> 0]
    /\ stored = {}

\* execute is called with parameters p out of P: lines 155-170, up to the
\* await of withCache.  A cached response resolves the lookup; otherwise the
\* invocation issues the remote query and awaits it, or awaits a query of
\* its key that is already in flight.
Start(i, P) ==
    /\ pc[i] = "idle"
    /\ \E p \in P :
        LET l == Lookup(p) IN
        /\ params' = [params EXCEPT ![i] = p]
        /\ IF ~encodeCalls(p.calls, p.opData).ok
           THEN /\ pc' = [pc EXCEPT ![i] = "done"]
                /\ outcome' = [outcome EXCEPT ![i] = EncodingError]
                /\ UNCHANGED <<lookup, supported, inflight, queries, probes, awaits>>
           ELSE /\ lookup' = [lookup EXCEPT ![i] = l]
                /\ outcome' = outcome
                /\ IF CacheHit(l.key) # {}
                   THEN /\ supported' = [supported EXCEPT
                                ![i] = Some((CHOOSE c \in CacheHit(l.key) : TRUE).data)]
                        /\ pc' = [pc EXCEPT ![i] = "looked"]
                        /\ UNCHANGED <<inflight, queries, probes, awaits>>
                   ELSE /\ pc' = [pc EXCEPT ![i] = "probe"]
                        /\ supported' = supported
                        /\ \/ /\ inflight' = inflight \cup {Query(l, i)}
                              /\ queries' = [queries EXCEPT ![Triple(l)] = @ + 1]
                              /\ probes' = [probes EXCEPT ![i] = @ + 1]
                              /\ awaits' = [awaits EXCEPT ![i] = i]
                           \/ \E q \in PendingPromise(l.key) :
                                /\ awaits' = [awaits EXCEPT ![i] = q.id]
                                /\ UNCHANGED <<inflight, queries, probes>>
    /\ UNCHANGED <<sent, thrown, cache, answered, stored>>

\* A remote query in flight returns a boolean: the response is stored under
\* the key, replacing what was there, and every invocation awaiting this
\* query gets it.
ProbeReturns(q, data) ==
    /\ q \in inflight
    /\ inflight' = inflight \ {q}
    /\ cache' = CacheSet(q.key, data)
    /\ stored' = stored \cup {[key |-> q.key, data |-> data]}
    /\ answered' = [answered EXCEPT ![Triple(q)] = @ + 1]
    /\ supported' = [i \in Invocations |->
            IF pc[i] = "probe" /\ awaits[i] = q.id THEN Some(data) ELSE supported[i]]
    /\ pc' = [i \in Invocations |->
            IF pc[i] = "probe" /\ awaits[i] = q.id THEN "looked" ELSE pc[i]]
    /\ UNCHANGED <<params, lookup, sent, thrown, outcome, queries, probes, awaits>>

\* The remote query fails: nothing is cached, the query is no longer in
\* flight, and the promise every invocation awaiting it holds is rejected.
\* The invocations themselves resume later, each in a step of its own.
ProbeFails(q) ==
    /\ q \in inflight
    /\ inflight' = inflight \ {q}
    /\ pc' = [i \in Invocations |->
            IF pc[i] = "probe" /\ awaits[i] = q.id THEN "rejected" ELSE pc[i]]
    /\ UNCHANGED <<params, lookup, supported, sent, thrown, outcome,
                   cache, queries, probes, answered, awaits, stored>>

\* Lines 161-170: execute resumes at its await with the rejected promise;
\* the await stands outside the try, so the rejection leaves execute.
AwaitRejects(i) ==
    /\ pc[i] = "rejected"
    /\ pc' = [pc EXCEPT ![i] = "done"]
    /\ outcome' = [outcome EXCEPT ![i] = ProbeError]
    /\ UNCHANGED <<params, lookup, supported, sent, thrown,
                   cache, inflight, queries, probes, answered, awaits, stored>>

\* Lines 171-182: the lookup has resolved.  Unsupported: throw.  Supported:
\* call sendTransaction and await it.
Dispatch(i) ==
    /\ pc[i] = "looked"
    /\ IF Unsupported(Get(supported[i]))
       THEN /\ pc' = [pc EXCEPT ![i] = "done"]
            /\ outcome' = [outcome EXCEPT ![i] = UnsupportedError]
            /\ sent' = sent
       ELSE /\ pc' = [pc EXCEPT ![i] = "send"]
            /\ sent' = [sent EXCEPT ![i] = Append(@,
                    SendRequest(params[i], Mode(params[i].opData),
                                encodeCalls(params[i].calls, params[i].opData)))]
            /\ outcome' = outcome
    /\ UNCHANGED <<params, lookup, supported, thrown, cache, inflight, queries,
                   probes, answered, awaits, stored>>

\* sendTransaction returns the transaction hash.
SendReturns(i) ==
    /\ pc[i] = "send"
    /\ pc' = [pc EXCEPT ![i] = "done"]
    /\ outcome' = [outcome EXCEPT ![i] = Returned]
    /\ UNCHANGED <<params, lookup, supported, sent, thrown, cache, inflight, queries,
                   probes, answered, awaits, stored>>

\* sendTransaction throws an error e out of E: lines 183-219.
SendThrows(i, E) ==
    /\ pc[i] = "send"
    /\ \E e \in E :
        /\ thrown' = [thrown EXCEPT ![i] = Some(e)]
        /\ outcome' = [outcome EXCEPT ![i] = Resolve(e, params[i].calls)]
    /\ pc' = [pc EXCEPT ![i] = AfterCatch]
    /\ UNCHANGED <<params, lookup, supported, sent, cache, inflight, queries,
                   probes, answered, awaits, stored>>

\* ------------------------------------------------- concurrent invocations
\* Two invocations, interleaved at their awaits, over every client, target,
\* delegation and opData, with a few call lists and submission errors.
Inputs ==
    Parameters(Clients, Addrs,
               {None, Some(<<>>), Some(<<Authorization(None)>>),
                Some(<<Authorization(Some("0xA2"))>>)},
               OpDatas,
               { <<>>,
                 << Call("0xA1", Some(AbiA), Some("f"), Some(<<"01">>), None, None) >> },
               {NoTxOption})

Faults ==
    { <<Err(FALSE, None)>>,
      <<Err(FALSE, None), Err(TRUE, Some(<<"ErrA">>))>>,
      <<Err(TRUE, Some(Sentinel))>> }

Next ==
    \/ \E i \in Invocations : Start(i, Inputs)
    \/ \E q \in inflight, data \in BOOLEAN : ProbeReturns(q, data)
    \/ \E q \in inflight : ProbeFails(q)
    \/ \E i \in Invocations : AwaitRejects(i)
    \/ \E i \in Invocations : Dispatch(i)
    \/ \E i \in Invocations : SendReturns(i)
    \/ \E i \in Invocations : SendThrows(i, Faults)

Spec == Init /\ [][Next]_vars

\* ------------------------------------------------------ one invocation
\* One invocation of a fixed client and target, over every call list and
\* every submission error.
ResolverInputs ==
    Parameters({"uid1"}, {"0xA1"}, {None}, {None, Some(<<"aa">>)}, CallLists,
               {NoTxOption})

NextResolver ==
    \/ Start(1, ResolverInputs)
    \/ \E q \in inflight, data \in BOOLEAN : ProbeReturns(q, data)
    \/ \E q \in inflight : ProbeFails(q)
    \/ AwaitRejects(1)
    \/ Dispatch(1)
    \/ SendReturns(1)
    \/ SendThrows(1, Chains)

SpecResolver == Init /\ [][NextResolver]_vars

\* ------------------------------------------- one invocation, every request
\* One invocation over every target, authorization list, opData and
\* combination of transaction fields.
DispatchInputs ==
    Parameters({"uid1"}, Addrs, AuthLists, OpDatas,
               { << Call("0xA1", Some(AbiA), Some("f"), Some(<<"01">>), None, None) >> },
               TxOptions)

NextDispatch ==
    \/ Start(1, DispatchInputs)
    \/ \E q \in inflight, data \in BOOLEAN : ProbeReturns(q, data)
    \/ \E q \in inflight : ProbeFails(q)
    \/ AwaitRejects(1)
    \/ Dispatch(1)
    \/ SendReturns(1)
    \/ SendThrows(1, Faults)

SpecDispatch == Init /\ [][NextDispatch]_vars

\* ------------------------------------------------------------- progress
\* Two invocations whose remote operations always settle: a pending query
\* returns or fails, a pending submission returns or throws, and the event
\* loop runs the continuation of a resolved or rejected lookup.  Whether an invocation
\* is started at all is up to the caller.
LiveInputs ==
    Parameters({"uid1"}, Addrs, {None}, {None, Some(<<"aa">>)},
               { << Call("0xA1", Some(AbiA), Some("f"), Some(<<"01">>), None, None) >>,
                 << Call("0xA1", Some(AbiB), Some("f"), Some(<<"01">>), None, None) >> },
               {NoTxOption})

LiveFaults == Faults \cup { <<Err(TRUE, Some(<<"ErrZ">>))>> }

ProbeSettles ==
    \E q \in inflight : ProbeFails(q) \/ \E data \in BOOLEAN : ProbeReturns(q, data)

SendSettles(i) == SendReturns(i) \/ SendThrows(i, LiveFaults)

NextLive ==
    \/ \E i \in Invocations : Start(i, LiveInputs)
    \/ ProbeSettles
    \/ \E i \in Invocations : AwaitRejects(i)
    \/ \E i \in Invocations : Dispatch(i)
    \/ \E i \in Invocations : SendSettles(i)

Fairness ==
    /\ WF_vars(ProbeSettles)
    /\ \A i \in Invocations : WF_vars(AwaitRejects(i))
    /\ \A i \in Invocations : WF_vars(Dispatch(i))
    /\ \A i \in Invocations : WF_vars(SendSettles(i))

SpecLive == Init /\ [][NextLive]_vars /\ Fairness

\* ================================================================= claims
\* What an invocation's parameters say, read off the parameters alone.
Delegate(p) ==
    IF /\ p.authorizationList # None
       /\ Len(p.authorizationList[1]) >= 1
       /\ p.authorizationList[1][1].contractAddress # None
    THEN p.authorizationList[1][1].contractAddress[1]
    ELSE p.address

HasDelegate(p) == 
    /\ p.authorizationList # None
    /\ Len(p.authorizationList[1]) >= 1
    /\ p.authorizationList[1][1].contractAddress # None

\* An invocation's own triple and key, read off its parameters.
OwnTriple(i) ==
    [client  |-> params[i].client,
     address |-> Delegate(params[i]),
     mode    |-> IF params[i].opData # None THEN ModeOpData ELSE ModeDefault]

KeyOf(t) == <<"supportsExecutionMode", t.client, t.address, t.mode>>

LookedUp(i) == lookup[i] # NoLookup
Submitted(i) == sent[i] # <<>>

\* C1: an invocation whose capability lookup resolved to false, freshly
\* probed or cached, hands nothing to sendTransaction and ends with
\* ExecuteUnsupportedError.
C1_UnsupportedThrowsBeforeSending ==
    \A i \in Invocations :
        supported[i] = Some(FALSE) =>
            /\ sent[i] = <<>>
            /\ pc[i] \in {"looked", "done"}
            /\ pc[i] = "done" => outcome[i] = UnsupportedError

\* Two invocations of one key have both ended on a false result: one of
\* them probed, the other joined the probe or read the cache.
C1_Witness ==
    \E i, j \in Invocations :
        /\ i # j
        /\ lookup[i].key = lookup[j].key
        /\ supported[i] = Some(FALSE) /\ supported[j] = Some(FALSE)
        /\ outcome[i] = UnsupportedError /\ outcome[j] = UnsupportedError
        /\ queries[Triple(lookup[i])] = 1

\* C2: a request reaches sendTransaction only after the invocation's own
\* lookup, made for (client, effective address, mode), has resolved to true;
\* nothing is submitted before the lookup or while it is pending.
C2_LookupTrueBeforeSending ==
    \A i \in Invocations :
        /\ pc[i] \in {"idle", "probe", "rejected", "looked"} => sent[i] = <<>>
        /\ Submitted(i) =>
            /\ supported[i] = Some(TRUE)
            /\ lookup[i].client = params[i].client
            /\ lookup[i].address = Delegate(params[i])
            /\ lookup[i].mode = sent[i][1].data.mode
            /\ [key |-> lookup[i].key, data |-> TRUE] \in stored

\* An invocation has submitted after a probe that it waited for.
C2_Witness ==
    \E i \in Invocations :
        /\ Submitted(i)
        /\ supported[i] = Some(TRUE)
        /\ queries[Triple(lookup[i])] = 1
        /\ pc[i] = "done"

\* C3 as stated: the transaction goes to the address the capability probe
\* was run against (the first authorization's contract address when there
\* is one, else parameters.address).
C3_SentToProbedAddress ==
    \A i \in Invocations :
        Submitted(i) =>
            /\ sent[i][1].to = Delegate(params[i])
            /\ sent[i][1].to = lookup[i].address

\* C3 amended: the transaction goes to parameters.address in every case;
\* the probe is run against the first authorization's contract address when
\* there is one and against parameters.address otherwise, so that the two
\* addresses agree whenever no contract address is delegated to.
C3_SentToAddressProbedAtDelegate ==
    \A i \in Invocations :
        /\ LookedUp(i) => lookup[i].address = Delegate(params[i])
        /\ Submitted(i) =>
            /\ sent[i][1].to = params[i].address
            /\ ~HasDelegate(params[i]) => sent[i][1].to = lookup[i].address

\* A submission under an authorization list delegating to another address
\* than parameters.address.
C3_Witness ==
    \E i \in Invocations :
        /\ Submitted(i)
        /\ HasDelegate(params[i])
        /\ Delegate(params[i]) # params[i].address
        /\ lookup[i].address = Delegate(params[i])

\* C4 as stated: the mode is the opData mode exactly when opData is supplied
\* and is a non-empty byte string, and the default mode otherwise.
C4_ModeByNonEmptyOpData ==
    \A i \in Invocations :
        LookedUp(i) =>
            lookup[i].mode =
                IF params[i].opData # None /\ Len(params[i].opData[1]) > 0
                THEN ModeOpData ELSE ModeDefault

\* C4 amended: the mode depends on opData alone; it is the opData mode
\* exactly when opData is supplied, be it the empty byte string '0x', and
\* the default mode when opData is absent; the mode submitted is the mode
\* that was probed.
C4_ModeByOpDataPresence ==
    \A i \in Invocations :
        /\ LookedUp(i) =>
            lookup[i].mode = IF params[i].opData # None THEN ModeOpData ELSE ModeDefault
        /\ Submitted(i) => sent[i][1].data.mode = lookup[i].mode

\* A submission with opData '0x' and a non-empty call list went out in the
\* opData mode.
C4_Witness ==
    \E i \in Invocations :
        /\ Submitted(i)
        /\ params[i].opData = Some(<<>>)
        /\ params[i].calls # <<>>
        /\ sent[i][1].data.mode = ModeOpData

\* ----------------------------------------------------- the error resolver
Least(S) == CHOOSE k \in S : \A j \in S : k <= j

\* The invocation ended on a failed submission.
Failed(i) == pc[i] = "done" /\ thrown[i] # None

\* The first error of the chain, outermost first, with a data property, and
\* the first one whose data property holds a value; 0 when there is none.
PropertyCarrier(e) ==
    LET S == { k \in 1..Len(e) : e[k].hasData } IN IF S = {} THEN 0 ELSE Least(S)

ValueCarrier(e) ==
    LET S == { k \in 1..Len(e) : e[k].hasData /\ e[k].data # None } IN
    IF S = {} THEN 0 ELSE Least(S)

\* The resolver found revert data: the first error with a data property
\* holds a value.
Found(i) ==
    /\ Failed(i)
    /\ PropertyCarrier(thrown[i][1]) > 0
    /\ thrown[i][1][PropertyCarrier(thrown[i][1])].data # None

FoundAt(i) == PropertyCarrier(thrown[i][1])
FoundData(i) == thrown[i][1][FoundAt(i)].data[1]

\* The calls whose declared interface decodes the data.
Decoders(calls, data) ==
    { k \in 1..Len(calls) :
        /\ calls[k].abi # None
        /\ data # <<>>
        /\ data[1] \in calls[k].abi[1].errors }

ContextOf(call) ==
    [abi |-> call.abi, address |-> call.to, args |-> call.args,
     docsPath |-> "/experimental/erc7821/execute", functionName |-> call.functionName]

\* C5 as stated: when the revert data is not the sentinel and several calls
\* with an interface decode it, the contextualized error reports the first
\* of them in list order.
C5_FirstDecoderReported ==
    \A i \in Invocations :
        (/\ Found(i)
         /\ FoundData(i) # Sentinel
         /\ Cardinality(Decoders(params[i].calls, FoundData(i))) > 1)
        => outcome[i].context =
             Some(ContextOf(params[i].calls[Least(Decoders(params[i].calls, FoundData(i)))]))

\* C6 as stated: revert data led by the sentinel selector raises
\* FunctionSelectorNotRecognizedError whatever follows the selector and
\* whatever the calls are.
C6_SentinelLedRaisesNotRecognized ==
    \A i \in Invocations :
        (/\ Found(i)
         /\ FoundData(i) # <<>>
         /\ FoundData(i)[1] = SentinelSelector)
        => outcome[i] = NotRecognizedError

\* C6 amended: a failed submission ends with
\* FunctionSelectorNotRecognizedError exactly when the revert data found is
\* the 4-byte sentinel selector and nothing more, whatever the calls are;
\* revert data with bytes after the selector is handled as any other.
C6_ExactSentinelRaisesNotRecognized ==
    \A i \in Invocations :
        Failed(i) =>
            (outcome[i] = NotRecognizedError
                <=> (Found(i) /\ FoundData(i) = <<SentinelSelector>>))

\* The sentinel came back for a call list with a call whose interface
\* decodes the sentinel itself.
C6_Witness ==
    \E i \in Invocations :
        /\ Found(i)
        /\ FoundData(i) = <<SentinelSelector>>
        /\ Decoders(params[i].calls, FoundData(i)) # {}
        /\ outcome[i] = NotRecognizedError

\* C7: when the revert data is not the sentinel and exactly one call's
\* interface decodes it, execute throws the contract error built from that
\* call's to, abi, functionName and args, wherever the call sits, over the
\* error that carried the data.
C7_SingleDecoderContextualized ==
    \A i \in Invocations :
        (/\ Found(i)
         /\ FoundData(i) # Sentinel
         /\ Cardinality(Decoders(params[i].calls, FoundData(i))) = 1)
        => LET e == thrown[i][1]
               m == Least(Decoders(params[i].calls, FoundData(i)))
           IN  outcome[i] =
                 [kind    |-> "ContractFunctionExecutionError",
                  error   |-> SubSeq(e, FoundAt(i), Len(e)),
                  cause   |-> FoundAt(i),
                  context |-> Some(ContextOf(params[i].calls[m]))]

\* The only decoding call is the first of two, the second declares an
\* interface that does not decode, and the data sat on the cause of the
\* error thrown.
C7_Witness ==
    \E i \in Invocations :
        /\ Found(i)
        /\ FoundAt(i) = 2
        /\ Len(params[i].calls) = 2
        /\ Decoders(params[i].calls, FoundData(i)) = {1}
        /\ params[i].calls[2].abi # None
        /\ params[i].calls[2].to # params[i].calls[1].to
        /\ outcome[i].kind = "ContractFunctionExecutionError"

\* C8: when the revert data is not the sentinel and no call's interface
\* decodes it, execute rethrows the very error sendTransaction threw.
C8_NoDecoderRethrows ==
    \A i \in Invocations :
        (/\ Found(i)
         /\ FoundData(i) # Sentinel
         /\ Decoders(params[i].calls, FoundData(i)) = {})
        => outcome[i] =
             [kind |-> "rethrow", error |-> thrown[i][1], cause |-> 0, context |-> None]

\* Data on the cause of the thrown error, calls with and without an
\* interface, none decoding it.
C8_Witness ==
    \E i \in Invocations :
        /\ Found(i)
        /\ FoundAt(i) = 2
        /\ FoundData(i) # Sentinel
        /\ \E k \in 1..Len(params[i].calls) : params[i].calls[k].abi # None
        /\ \E k \in 1..Len(params[i].calls) : params[i].calls[k].abi = None
        /\ Decoders(params[i].calls, FoundData(i)) = {}
        /\ outcome[i].kind = "rethrow"

\* What the resolver does with revert data d carried at position k.
ResolvedWith(i, k, d) ==
    /\ d = Sentinel => outcome[i] = NotRecognizedError
    /\ (d # Sentinel /\ Decoders(params[i].calls, d) # {}) =>
            /\ outcome[i].kind = "ContractFunctionExecutionError"
            /\ outcome[i].cause = k
    /\ (d # Sentinel /\ Decoders(params[i].calls, d) = {}) =>
            outcome[i] = Rethrow(thrown[i][1])

\* C9 as stated: the resolver uses the revert data of the first error of
\* the chain that carries revert data, and rethrows the original error when
\* no error carries any.
C9_FirstDataValueUsed ==
    \A i \in Invocations :
        Failed(i) =>
            LET e == thrown[i][1]
                k == ValueCarrier(e)
            IN  IF k = 0 THEN outcome[i] = Rethrow(e)
                ELSE ResolvedWith(i, k, e[k].data[1])

\* C9 amended: the resolver stops at the first error of the chain, from the
\* outermost inward, that has a data property; when there is none, or when
\* that property holds no value, execute rethrows the original error with
\* no sentinel check and no matching, even if an error further in carries
\* revert data; otherwise it uses that property's value.
C9_FirstDataPropertyUsed ==
    \A i \in Invocations :
        Failed(i) =>
            LET e == thrown[i][1]
                k == PropertyCarrier(e)
            IN  IF k = 0 \/ e[k].data = None THEN outcome[i] = Rethrow(e)
                ELSE ResolvedWith(i, k, e[k].data[1])

\* The error thrown has no data property, its cause carries data that a
\* call decodes, and the contract error is layered over the cause.
C9_Witness ==
    \E i \in Invocations :
        /\ Failed(i)
        /\ Len(thrown[i][1]) = 2
        /\ ~thrown[i][1][1].hasData
        /\ Found(i)
        /\ outcome[i].kind = "ContractFunctionExecutionError"
        /\ outcome[i].cause = 2

\* ------------------------------------------------------------- the cache
\* C10 as stated: the remote query is made at most once per triple.
C10_AtMostOneQuery ==
    \A t \in Triples : queries[t] <= 1

\* C10 amended: once a remote query for a triple has returned a boolean, no
\* further query for the triple is issued: an invocation of the triple that
\* starts afterwards takes the boolean the cache holds under the triple's
\* key, issuing nothing; and the boolean an invocation goes by is always
\* one that was stored under its own triple's key.
C10_NoQueryOnceAnswered ==
    /\ [][\A t \in Triples : answered[t] >= 1 => queries'[t] = queries[t]]_vars
    /\ [][\A i \in Invocations :
            (/\ pc[i] = "idle"
             /\ lookup'[i] # NoLookup
             /\ answered[OwnTriple(i)'] >= 1)
            => /\ pc'[i] = "looked"
               /\ probes'[i] = 0
               /\ awaits'[i] = 0
               /\ supported'[i] # None
               /\ [key |-> KeyOf(OwnTriple(i)'), data |-> supported'[i][1]] \in cache]_vars
    /\ [](\A i \in Invocations :
            supported[i] # None =>
                [key |-> KeyOf(OwnTriple(i)), data |-> supported[i][1]] \in stored)

\* Two invocations of one triple, under different parameters.address, have
\* both resolved their lookup on a single remote query: one awaited it, the
\* other started after it had returned and read the cache.
C10_Witness ==
    \E i, j \in Invocations :
        /\ i # j
        /\ Triple(lookup[i]) = Triple(lookup[j])
        /\ params[i].address # params[j].address
        /\ supported[i] # None /\ supported[j] # None
        /\ queries[Triple(lookup[i])] = 1
        /\ answered[Triple(lookup[i])] = 1
        /\ awaits[i] = i /\ awaits[j] = 0

\* ----------------------------------------------------------- the encoding
\* The batch an invocation submitted.
Batch(i) == sent[i][1].data.calls

\* The data bytes a call stands for: the selector of the function and its
\* arguments under a declared interface, else the raw data, else nothing.
ExpectedData(call) ==
    IF call.abi # None
    THEN <<call.functionName[1]>> \o (IF call.args = None THEN <<>> ELSE call.args[1])
    ELSE IF call.data # None THEN call.data[1] ELSE <<>>

ExpectedValue(call) == IF call.value # None THEN call.value[1] ELSE 0

\* C11: the batch has one entry per call, in call order; entry k has the
\* k-th call's to as target, its value or 0, and as data the interface-based
\* encoding when the call declares an interface, else its raw data, else
\* empty bytes.
C11_OneEntryPerCall ==
    \A i \in Invocations :
        Submitted(i) =>
            /\ Len(Batch(i).calls) = Len(params[i].calls)
            /\ \A k \in 1..Len(params[i].calls) :
                /\ Batch(i).calls[k].target = params[i].calls[k].to
                /\ Batch(i).calls[k].value = ExpectedValue(params[i].calls[k])
                /\ Batch(i).calls[k].data = ExpectedData(params[i].calls[k])

\* A batch of two: a call with an interface and raw data too, then a call
\* with neither and a value.
C11_Witness ==
    \E i \in Invocations :
        /\ Submitted(i)
        /\ Len(params[i].calls) = 2
        /\ params[i].calls[1].abi # None /\ params[i].calls[1].data # None
        /\ params[i].calls[2].abi = None /\ params[i].calls[2].data = None
        /\ Batch(i).calls[2].value = 100
        /\ Batch(i).calls[2].data = <<>>

\* C12: the batch has the trailing opData field exactly when opData is
\* given, holding that opData, and the payload carries the opData mode
\* exactly when the batch has the field.
C12_OpDataFieldAgreesWithMode ==
    \A i \in Invocations :
        Submitted(i) =>
            /\ Batch(i).opData = params[i].opData
            /\ (sent[i][1].data.mode = ModeOpData) <=> (Batch(i).opData # None)
            /\ (sent[i][1].data.mode = ModeDefault) <=> (Batch(i).opData = None)

\* Batches went out with opData '0x' and the field, and with no opData and
\* no field.
C12_Witness ==
    \E i \in Invocations :
        /\ Submitted(i)
        /\ params[i].opData = Some(<<>>)
        /\ Batch(i).opData = Some(<<>>)
        /\ sent[i][1].data.mode = ModeOpData

\* C13: gas, gasPrice, maxFeePerGas, maxPriorityFeePerGas, account, chain
\* and authorizationList reach sendTransaction as the caller gave them;
\* execute sets to and data only.
C13_ParametersPassThrough ==
    \A i \in Invocations :
        Submitted(i) =>
            /\ sent[i][1].gas = params[i].gas
            /\ sent[i][1].gasPrice = params[i].gasPrice
            /\ sent[i][1].maxFeePerGas = params[i].maxFeePerGas
            /\ sent[i][1].maxPriorityFeePerGas = params[i].maxPriorityFeePerGas
            /\ sent[i][1].account = params[i].account
            /\ sent[i][1].chain = params[i].chain
            /\ sent[i][1].authorizationList = params[i].authorizationList
            /\ \A f \in DOMAIN params[i] : sent[i][1][f] = params[i][f]
            /\ DOMAIN sent[i][1] = DOMAIN params[i] \cup {"to", "data"}

\* A request went out with every transaction field and an authorization
\* list given.
C13_Witness ==
    \E i \in Invocations :
        /\ Submitted(i)
        /\ params[i].gas # None /\ params[i].gasPrice # None
        /\ params[i].maxFeePerGas # None /\ params[i].maxPriorityFeePerGas # None
        /\ params[i].account # None /\ params[i].chain # None
        /\ params[i].authorizationList = Some(<<Authorization(Some("0xA2"))>>)
        /\ sent[i][1].maxPriorityFeePerGas = params[i].maxPriorityFeePerGas

\* -------------------------------------------------------------- no retry
ThrownKinds ==
    {"rethrow", "FunctionSelectorNotRecognizedError", "ContractFunctionExecutionError"}

\* C14: an invocation hands at most one request to sendTransaction, and
\* once that submission has failed it makes no remote call any more: no
\* second submission, no capability query; it is over, with an error.
C14_OneSubmissionNoRetry ==
    /\ [](\A i \in Invocations :
            /\ Len(sent[i]) <= 1
            /\ thrown[i] # None => (pc[i] = "done" /\ outcome[i].kind \in ThrownKinds))
    /\ [][\A i \in Invocations :
            thrown[i] # None =>
                /\ sent'[i] = sent[i]
                /\ probes'[i] = probes[i]
                /\ outcome'[i] = outcome[i]]_vars

\* A submission failed after the invocation's own probe, and the other
\* invocation went on to probe and submit afterwards.
C14_Witness ==
    \E i, j \in Invocations :
        /\ i # j
        /\ thrown[i] # None /\ Len(sent[i]) = 1 /\ probes[i] = 1
        /\ thrown[j] # None /\ Len(sent[j]) = 1 /\ probes[j] = 1

\* C15: in the matching, a call without an interface is never the matched
\* call and a decoding failure ends nothing: a decoding call is found
\* wherever it stands, and the outcome is the contract error of a decoding
\* call or, when there is none, the original error.
C15_MatchingSkipsAndGoesOn ==
    \A i \in Invocations :
        (Found(i) /\ FoundData(i) # Sentinel) =>
            LET D == Decoders(params[i].calls, FoundData(i)) IN
            IF D = {}
            THEN outcome[i] = Rethrow(thrown[i][1])
            ELSE /\ outcome[i].kind = "ContractFunctionExecutionError"
                 /\ outcome[i].context # None
                 /\ outcome[i].context[1].abi # None
                 /\ \E m \in D : outcome[i].context = Some(ContextOf(params[i].calls[m]))

\* The first call's interface fails to decode the data, the second call's
\* decodes it, and the second call is reported.
C15_Witness ==
    \E i \in Invocations :
        /\ Found(i)
        /\ Len(params[i].calls) = 2
        /\ params[i].calls[1].abi # None
        /\ Decoders(params[i].calls, FoundData(i)) = {2}
        /\ outcome[i].context = Some(ContextOf(params[i].calls[2]))

\* C16: when the remote capability query fails, every invocation awaiting
\* it holds the rejection and, when it resumes, ends with that failure and
\* no other; until then and ever after it has handed nothing to
\* sendTransaction and issues no further query.
C16_ProbeFailurePropagates ==
    /\ [][\A q \in inflight :
            (q \notin inflight' /\ answered' = answered) =>
                \A i \in Invocations :
                    (pc[i] = "probe" /\ awaits[i] = q.id) => pc'[i] = "rejected"]_vars
    /\ [](\A i \in Invocations :
            pc[i] = "rejected" =>
                (sent[i] = <<>> /\ supported[i] = None /\ outcome[i] = Pending))
    /\ [][\A i \in Invocations :
            pc[i] = "rejected" =>
                /\ sent'[i] = sent[i]
                /\ probes'[i] = probes[i]
                /\ \/ pc'[i] = "rejected" /\ outcome'[i] = outcome[i]
                   \/ /\ pc'[i] = "done"
                      /\ outcome'[i] =
                            [kind |-> "SupportsExecutionModeError", error |-> <<>>,
                             cause |-> 0, context |-> None]]_vars
    /\ [](\A i \in Invocations :
            outcome[i].kind = "SupportsExecutionModeError" =>
                /\ pc[i] = "done"
                /\ sent[i] = <<>>
                /\ thrown[i] = None
                /\ probes[i] <= 1)
    /\ [][\A i \in Invocations :
            outcome[i].kind = "SupportsExecutionModeError" =>
                (probes'[i] = probes[i] /\ outcome'[i] = outcome[i])]_vars

\* An invocation that issued the query ended on its failure, and the other
\* invocation then queried the same triple again.
C16_Witness ==
    \E i, j \in Invocations :
        /\ i # j
        /\ outcome[i].kind = "SupportsExecutionModeError"
        /\ probes[i] = 1 /\ sent[i] = <<>>
        /\ Triple(lookup[j]) = Triple(lookup[i])
        /\ probes[j] = 1

\* A call whose encoding fails: it declares an interface that has no
\* function of the name it gives.
Malformed(call) ==
    /\ call.abi # None
    /\ (call.functionName = None \/ call.functionName[1] \notin call.abi[1].functions)

\* C17: an invocation with a call whose encoding fails ends with the
\* encoding error before any remote activity: it makes no lookup, issues no
\* query, submits nothing, and (being the only invocation) leaves the cache
\* empty.
C17_EncodingErrorBeforeRemote ==
    \A i \in Invocations :
        (pc[i] # "idle" /\ \E k \in 1..Len(params[i].calls) : Malformed(params[i].calls[k]))
        => /\ pc[i] = "done"
           /\ outcome[i] = [kind |-> "EncodeFunctionDataError", error |-> <<>>,
                            cause |-> 0, context |-> None]
           /\ lookup[i] = NoLookup
           /\ supported[i] = None
           /\ probes[i] = 0
           /\ sent[i] = <<>>
           /\ (\A j \in Invocations \ {i} : pc[j] = "idle") =>
                (cache = {} /\ inflight = {} /\ \A t \in Triples : queries[t] = 0)

\* A well-formed call followed by a malformed one ended in the encoding
\* error.
C17_Witness ==
    \E i \in Invocations :
        /\ Len(params[i].calls) = 2
        /\ ~Malformed(params[i].calls[1])
        /\ Malformed(params[i].calls[2])
        /\ outcome[i].kind = "EncodeFunctionDataError"
        /\ cache = {}

\* ---------------------------------------------------------- interleavings
\* C18: under every interleaving the cache changes only when a capability
\* query returns, by the one entry under the key of the triple queried,
\* which is the own triple of an invocation awaiting it; starting (encoding
\* and lookup), submitting and resolving an error leave the cache as it is;
\* the parameters of a started invocation, its call list among them, never
\* change; and the support value an invocation acts on is the one stored
\* under its own triple's key, answered for that triple.
C18_CacheOwnKeyOnly ==
    /\ [][cache' # cache =>
            \E q \in inflight, d \in BOOLEAN :
                /\ q \notin inflight'
                /\ answered'[Triple(q)] = answered[Triple(q)] + 1
                /\ [key |-> KeyOf(Triple(q)), data |-> d] \in cache'
                /\ {c \in cache' : c.key # KeyOf(Triple(q))}
                     = {c \in cache : c.key # KeyOf(Triple(q))}
                /\ Cardinality({c \in cache' : c.key = KeyOf(Triple(q))}) = 1
                /\ \E i \in Invocations : pc[i] = "probe" /\ OwnTriple(i) = Triple(q)]_vars
    /\ [][(\E i \in Invocations :
              \/ pc[i] = "idle" /\ pc'[i] # "idle"
              \/ sent'[i] # sent[i]
              \/ thrown'[i] # thrown[i]) => cache' = cache]_vars
    /\ [][\A i \in Invocations : pc[i] # "idle" => params'[i] = params[i]]_vars
    /\ [](\A i \in Invocations :
            supported[i] # None =>
                /\ answered[OwnTriple(i)] >= 1
                /\ [key |-> KeyOf(OwnTriple(i)), data |-> supported[i][1]] \in stored)

\* Two invocations of one client and address in the two modes got opposite
\* answers, each from its own entry.
C18_Witness ==
    \E i, j \in Invocations :
        /\ params[i].client = params[j].client
        /\ lookup[i].address = lookup[j].address
        /\ lookup[i].mode # lookup[j].mode
        /\ supported[i] = Some(TRUE)
        /\ supported[j] = Some(FALSE)
        /\ Cardinality(cache) = 2

\* ------------------------------------------------------------ termination
OutcomeKinds ==
    {"hash", "EncodeFunctionDataError", "SupportsExecutionModeError",
     "ExecuteUnsupportedError"} \cup ThrownKinds

\* C19: with queries and submissions that settle, every started invocation
\* ends; it ends with one outcome, which never changes: the hash, or one of
\* encoding error, probe failure, ExecuteUnsupportedError,
\* FunctionSelectorNotRecognizedError, contract error, original submission
\* error; the hash only when sendTransaction returned.
C19_TerminatesWithOneOutcome ==
    /\ \A i \in Invocations : (pc[i] # "idle") ~> (pc[i] = "done")
    /\ [](\A i \in Invocations :
            /\ (pc[i] = "done") <=> (outcome[i] # Pending)
            /\ pc[i] = "done" => outcome[i].kind \in OutcomeKinds
            /\ outcome[i].kind = "hash" =>
                (sent[i] # <<>> /\ thrown[i] = None /\ supported[i] = Some(TRUE))
            /\ thrown[i] # None => outcome[i].kind \in ThrownKinds)
    /\ [][\A i \in Invocations :
            outcome[i] # Pending => (outcome'[i] = outcome[i] /\ pc'[i] = "done")]_vars

\* One invocation returned the hash, the other rethrew a submission error
\* that no call decodes.
C19_Witness ==
    \E i, j \in Invocations :
        /\ pc[i] = "done" /\ outcome[i].kind = "hash"
        /\ pc[j] = "done" /\ outcome[j].kind = "rethrow"
        /\ Found(j)

====
